---- MODULE Spec2Model ----
(***************************************************************************)
(* Parsing and building of structured HTTP header values (Allow, Via,     *)
(* Warning, Forwarded).  A header value is a sequence of physical lines;  *)
(* a line is a sequence of one-character strings (bytes).                 *)
(***************************************************************************)
EXTENDS Integers, Sequences, FiniteSets, TLC

VARIABLES h, op, arg, ret

vars == <<h, op, arg, ret>>

(***************************************************************************)
(* Bytes and byte classes.                                                 *)
(***************************************************************************)
SP == " "
HT == "\t"
COMMA == ","
DQUOTE == "\""
BSLASH == "\\"
LPAREN == "("
RPAREN == ")"
SLASH == "/"
SEMI == ";"
EQUALS == "="

\* The byte peek returns at the end of the input (Go's 0 byte).
NUL == ""

Digits == <<"0", "1", "2", "3", "4", "5", "6", "7", "8", "9">>

UpperCase == <<"A", "B", "C", "D", "E", "F", "G", "H", "I", "J", "K", "L", "M",
               "N", "O", "P", "Q", "R", "S", "T", "U", "V", "W", "X", "Y", "Z">>

LowerCase == <<"a", "b", "c", "d", "e", "f", "g", "h", "i", "j", "k", "l", "m",
               "n", "o", "p", "q", "r", "s", "t", "u", "v", "w", "x", "y", "z">>

Delimiters == {DQUOTE, LPAREN, RPAREN, COMMA, SLASH, ":", SEMI, "<", EQUALS, ">",
               "?", "@", "[", BSLASH, "]", "{", "}"}

isWS(c) == c \in {SP, HT}

isDigit(c) == \E i \in 1..Len(Digits) : Digits[i] = c

isTokenChar(c) == c /= NUL /\ ~isWS(c) /\ c \notin Delimiters

digitVal(c) == (CHOOSE i \in 1..Len(Digits) : Digits[i] = c) - 1

lowerByte(c) ==
    IF \E i \in 1..Len(UpperCase) : UpperCase[i] = c
    THEN LowerCase[CHOOSE i \in 1..Len(UpperCase) : UpperCase[i] = c]
    ELSE c

\* strings.ToLower
ToLower(s) == [i \in 1..Len(s) |-> lowerByte(s[i])]

\* s[n:] of Go, for 0 <= n <= len(s)
Drop(s, n) == SubSeq(s, n + 1, Len(s))

\* s[:n] of Go
Take(s, n) == SubSeq(s, 1, n)

\* strings.HasPrefix
HasPrefix(s, p) == Len(s) >= Len(p) /\ Take(s, Len(p)) = p

\* strings.TrimPrefix
TrimPrefix(s, p) == IF HasPrefix(s, p) THEN Drop(s, Len(p)) ELSE s

\* strings.ContainsRune
Contains(s, c) == \E i \in 1..Len(s) : s[i] = c

\* The length of the longest prefix of v whose bytes all satisfy the test
\* encoded by class: "ws", "token", "chomp", "digit", "tocomma", "wscomma".
inClass(class, c) ==
    CASE class = "ws" -> isWS(c)
      [] class = "token" -> isTokenChar(c)
      [] class = "chomp" -> ~isWS(c) /\ c /= COMMA
      [] class = "digit" -> isDigit(c)
      [] class = "tocomma" -> c /= COMMA
      [] class = "wscomma" -> isWS(c) \/ c = COMMA

RECURSIVE runLen(_, _, _)
runLen(class, v, i) ==
    IF i < Len(v) /\ inClass(class, v[i + 1])
    THEN runLen(class, v, i + 1)
    ELSE i

(***************************************************************************)
(* Lexical scanner.  Every operator returns the parsed value and the      *)
(* remaining input.                                                        *)
(***************************************************************************)
peek(v) == IF v = <<>> THEN NUL ELSE v[1]

skipWS(v) == Drop(v, runLen("ws", v, 0))

token(v) ==
    LET n == runLen("token", v, 0)
    IN  [val |-> Take(v, n), v |-> Drop(v, n)]

chomp(v) ==
    LET w == skipWS(v)
        n == runLen("chomp", w, 0)
    IN  [val |-> Take(w, n), v |-> skipWS(Drop(w, n))]

RECURSIVE decimal(_, _)
decimal(s, acc) ==
    IF s = <<>> THEN acc ELSE decimal(Tail(s), acc * 10 + digitVal(s[1]))

number(v) ==
    LET n == runLen("digit", v, 0)
    IN  [val |-> IF n = 0 THEN -1 ELSE decimal(Take(v, n), 0), v |-> Drop(v, n)]

consume(v, b) ==
    IF peek(v) = b THEN [v |-> Tail(v), ok |-> TRUE] ELSE [v |-> v, ok |-> FALSE]

\* The text between opener and its matching closer, backslash pairs replaced
\* by their second byte; nested opener/closer pairs count when the two
\* differ.  i is the number of bytes read, depth the open nesting levels.
RECURSIVE scanDelimited(_, _, _, _, _, _)
scanDelimited(v, opener, closer, i, depth, text) ==
    IF i >= Len(v)
    THEN [val |-> text, v |-> <<>>, ok |-> FALSE]
    ELSE LET c == v[i + 1]
         IN  IF c = BSLASH
             THEN IF i + 1 < Len(v)
                  THEN scanDelimited(v, opener, closer, i + 2, depth,
                                     Append(text, v[i + 2]))
                  ELSE [val |-> text, v |-> <<>>, ok |-> FALSE]
             ELSE IF c = closer
             THEN IF depth = 0
                  THEN [val |-> text, v |-> Drop(v, i + 1), ok |-> TRUE]
                  ELSE scanDelimited(v, opener, closer, i + 1, depth - 1,
                                     Append(text, c))
             ELSE IF c = opener
             THEN scanDelimited(v, opener, closer, i + 1, depth + 1,
                                Append(text, c))
             ELSE scanDelimited(v, opener, closer, i + 1, depth, Append(text, c))

consumeDelimited(v, opener, closer) ==
    IF peek(v) /= opener
    THEN [val |-> <<>>, v |-> v, ok |-> FALSE]
    ELSE scanDelimited(v, opener, closer, 1, 0, <<>>)

quoted(v) ==
    LET r == consumeDelimited(v, DQUOTE, DQUOTE)
    IN  [val |-> r.val, v |-> r.v]

comment(v) ==
    LET r == consumeDelimited(v, LPAREN, RPAREN)
    IN  [val |-> r.val, v |-> r.v]

consumeQuoted(v) == consumeDelimited(v, DQUOTE, DQUOTE)

consumeItem(v) == token(v)

\* writeDelimited appends opener, s with opener, closer and backslash
\* escaped by a backslash, and closer.
RECURSIVE escapeDelimited(_, _, _)
escapeDelimited(s, opener, closer) ==
    IF s = <<>> THEN <<>>
    ELSE (IF s[1] \in {opener, closer, BSLASH} THEN <<BSLASH, s[1]>> ELSE <<s[1]>>)
         \o escapeDelimited(Tail(s), opener, closer)

writeDelimited(b, s, opener, closer) ==
    b \o <<opener>> \o escapeDelimited(s, opener, closer) \o <<closer>>

(***************************************************************************)
(* Element iterator.  The field nil stands for Go's nil slice of lines:   *)
(* the marker "no more elements".                                          *)
(***************************************************************************)
RECURSIVE skipToElem(_, _)
skipToElem(v, vs) ==
    LET w == Drop(v, runLen("wscomma", v, 0))
    IN  IF w /= <<>> THEN [v |-> w, vs |-> vs, nil |-> FALSE]
        ELSE IF vs = <<>> THEN [v |-> <<>>, vs |-> <<>>, nil |-> TRUE]
        ELSE skipToElem(vs[1], Tail(vs))

toNextElem(v, vs) ==
    skipToElem(Drop(v, runLen("tocomma", v, 0)), vs)

iterElems(v, vs) == toNextElem(v, vs)

(***************************************************************************)
(* A parser's result: nil is TRUE for Go's nil slice, val is the entries.  *)
(***************************************************************************)
Slice(isNil, val) == [nil |-> isNil, val |-> val]

\* append(s, x): the result is never nil
AppendTo(s, x) == Slice(FALSE, Append(s.val, x))

NilSlice == Slice(TRUE, <<>>)

(***************************************************************************)
(* Allow                                                                   *)
(***************************************************************************)
RECURSIVE AllowLoop(_, _)
AllowLoop(it, methods) ==
    IF it.nil THEN methods
    ELSE LET t == token(it.v)
         IN  AllowLoop(toNextElem(t.v, it.vs),
                       IF t.val /= <<>> THEN AppendTo(methods, t.val) ELSE methods)

\* Allow without the final test for a header that is present.
AllowLoopOnly(lines) == AllowLoop(toNextElem(<<>>, lines), NilSlice)

Allow(lines) ==
    LET methods == AllowLoop(toNextElem(<<>>, lines), NilSlice)
    IN  IF methods.nil /\ Len(lines) > 0 THEN Slice(FALSE, <<>>) ELSE methods

(***************************************************************************)
(* Via                                                                     *)
(***************************************************************************)
ViaEntry(proto, by, cmt) ==
    [ReceivedProto |-> proto, ReceivedBy |-> by, Comment |-> cmt]

HTTPPrefix == <<"H", "T", "T", "P", SLASH>>

\* The loop body of Via never reading the comment.
ViaElemNoComment(v) ==
    LET p == chomp(v)
        proto == IF Contains(p.val, SLASH) THEN p.val ELSE HTTPPrefix \o p.val
        b == chomp(p.v)
    IN  IF p.val = <<>> THEN [emit |-> FALSE, entry |-> ViaEntry(<<>>, <<>>, <<>>), v |-> p.v]
        ELSE IF b.val = <<>>
        THEN [emit |-> FALSE, entry |-> ViaEntry(proto, <<>>, <<>>), v |-> b.v]
        ELSE [emit |-> TRUE, entry |-> ViaEntry(proto, b.val, <<>>), v |-> b.v]

\* One pass of the loop body of Via over the element at v: the entry it
\* appends (emit) and the input left for the iterator.
ViaElem(v) ==
    LET p == chomp(v)
        proto == IF Contains(p.val, SLASH) THEN p.val ELSE HTTPPrefix \o p.val
        b == chomp(p.v)
        c == IF peek(b.v) = LPAREN THEN comment(b.v) ELSE [val |-> <<>>, v |-> b.v]
    IN  IF p.val = <<>> THEN [emit |-> FALSE, entry |-> ViaEntry(<<>>, <<>>, <<>>), v |-> p.v]
        ELSE IF b.val = <<>>
        THEN [emit |-> FALSE, entry |-> ViaEntry(proto, <<>>, <<>>), v |-> b.v]
        ELSE [emit |-> TRUE, entry |-> ViaEntry(proto, b.val, c.val), v |-> c.v]

RECURSIVE ViaLoop(_, _)
ViaLoop(it, entries) ==
    IF it.nil THEN entries
    ELSE LET e == ViaElem(it.v)
         IN  ViaLoop(toNextElem(e.v, it.vs),
                     IF e.emit THEN AppendTo(entries, e.entry) ELSE entries)

\* Via reading the first physical line only (http.Header.Get).
ViaFirstLine(lines) ==
    ViaLoop(toNextElem(<<>>, IF lines = <<>> THEN <<>> ELSE <<lines[1]>>), NilSlice)

Via(lines) == ViaLoop(toNextElem(<<>>, lines), NilSlice)

\* buildVia writing the comment between parentheses as it is.
buildViaEntryRaw(b, entry) ==
    LET b1 == b \o TrimPrefix(entry.ReceivedProto, HTTPPrefix) \o <<SP>>
              \o entry.ReceivedBy
    IN  IF entry.Comment /= <<>>
        THEN b1 \o <<SP, LPAREN>> \o entry.Comment \o <<RPAREN>>
        ELSE b1

buildViaEntry(b, entry) ==
    LET b1 == b \o TrimPrefix(entry.ReceivedProto, HTTPPrefix) \o <<SP>>
              \o entry.ReceivedBy
    IN  IF entry.Comment /= <<>>
        THEN writeDelimited(b1 \o <<SP>>, entry.Comment, LPAREN, RPAREN)
        ELSE b1

RECURSIVE buildViaFrom(_, _, _)
buildViaFrom(entries, i, b) ==
    IF i > Len(entries) THEN b
    ELSE buildViaFrom(entries, i + 1,
                      buildViaEntry(IF i > 1 THEN b \o <<COMMA, SP>> ELSE b, entries[i]))

buildVia(entries) == buildViaFrom(entries, 1, <<>>)

(***************************************************************************)
(* Warning.  A Date is 0 (Go's zero time) or a whole-second UTC instant,   *)
(* numbered 1..9.  http.TimeFormat writes a weekday, a comma, a space, the *)
(* instant and the zone; http.ParseTime reads that layout back and gives   *)
(* the zero time (and an error the parser drops) for any other text.       *)
(***************************************************************************)
WarningEntry(code, agent, text, date) ==
    [Code |-> code, Agent |-> agent, Text |-> text, Date |-> date]

ZeroTime == 0

FormatTime(d) == <<"D", COMMA, SP, Digits[d + 1], SP, "G", "M", "T">>

ParseTime(s) ==
    IF /\ Len(s) = 8
       /\ Take(s, 3) = <<"D", COMMA, SP>>
       /\ isDigit(s[4]) /\ s[4] /= "0"
       /\ Drop(s, 4) = <<SP, "G", "M", "T">>
    THEN digitVal(s[4])
    ELSE ZeroTime

\* strconv.Itoa for n >= 0
RECURSIVE Itoa(_)
Itoa(n) == IF n < 10 THEN <<Digits[n + 1]>> ELSE Itoa(n \div 10) \o <<Digits[(n % 10) + 1]>>

\* One pass of the loop body of Warning over the element at v.
WarningElem(v) ==
    LET n == number(v)
        s1 == consume(n.v, SP)
        a == chomp(s1.v)
        t == quoted(a.v)
        s2 == consume(t.v, SP)
        d == quoted(s2.v)
    IN  IF n.val = -1
        THEN [emit |-> FALSE, entry |-> WarningEntry(-1, <<>>, <<>>, ZeroTime), v |-> n.v]
        ELSE IF ~s1.ok
        THEN [emit |-> FALSE, entry |-> WarningEntry(n.val, <<>>, <<>>, ZeroTime), v |-> s1.v]
        ELSE IF a.val = <<>>
        THEN [emit |-> FALSE, entry |-> WarningEntry(n.val, <<>>, <<>>, ZeroTime), v |-> a.v]
        ELSE IF s2.ok
        THEN [emit |-> TRUE, entry |-> WarningEntry(n.val, a.val, t.val, ParseTime(d.val)),
              v |-> d.v]
        ELSE [emit |-> TRUE, entry |-> WarningEntry(n.val, a.val, t.val, ZeroTime), v |-> s2.v]

RECURSIVE WarningLoop(_, _)
WarningLoop(it, entries) ==
    IF it.nil THEN entries
    ELSE LET e == WarningElem(it.v)
         IN  WarningLoop(toNextElem(e.v, it.vs),
                         IF e.emit THEN AppendTo(entries, e.entry) ELSE entries)

\* Warning starting from an empty slice instead of a nil one.
WarningFromEmpty(lines) == WarningLoop(toNextElem(<<>>, lines), Slice(FALSE, <<>>))

Warning(lines) == WarningLoop(toNextElem(<<>>, lines), NilSlice)

\* buildWarning writing the text between quotes as it is.
buildWarningEntryRaw(b, entry) ==
    LET b1 == b \o Itoa(entry.Code) \o <<SP>> \o entry.Agent \o <<SP, DQUOTE>>
              \o entry.Text \o <<DQUOTE>>
    IN  IF entry.Date /= ZeroTime
        THEN b1 \o <<SP, DQUOTE>> \o FormatTime(entry.Date) \o <<DQUOTE>>
        ELSE b1

buildWarningEntry(b, entry) ==
    LET b1 == writeDelimited(b \o Itoa(entry.Code) \o <<SP>> \o entry.Agent \o <<SP>>,
                             entry.Text, DQUOTE, DQUOTE)
    IN  IF entry.Date /= ZeroTime
        THEN b1 \o <<SP, DQUOTE>> \o FormatTime(entry.Date) \o <<DQUOTE>>
        ELSE b1

RECURSIVE buildWarningFrom(_, _, _)
buildWarningFrom(entries, i, b) ==
    IF i > Len(entries) THEN b
    ELSE buildWarningFrom(entries, i + 1,
                          buildWarningEntry(IF i > 1 THEN b \o <<COMMA, SP>> ELSE b,
                                            entries[i]))

buildWarning(entries) == buildWarningFrom(entries, 1, <<>>)

(***************************************************************************)
(* Forwarded.  Ext is a Go map: nil is TRUE for the nil map, m is the      *)
(* mapping from names to values.                                           *)
(***************************************************************************)
NilMap == [nil |-> TRUE, m |-> <<>>]

MapSet(ext, name, value) ==
    [nil |-> FALSE,
     m |-> [k \in (DOMAIN ext.m) \cup {name} |-> IF k = name THEN value ELSE ext.m[k]]]

ForwardedElem(by, for, host, proto, ext) ==
    [By |-> by, For |-> for, Host |-> host, Proto |-> proto, Ext |-> ext]

ZeroElem == ForwardedElem(<<>>, <<>>, <<>>, <<>>, NilMap)

NameFor == <<"f", "o", "r">>
NameBy == <<"b", "y">>
NameHost == <<"h", "o", "s", "t">>
NameProto == <<"p", "r", "o", "t", "o">>

\* The switch on name without its case "host".
setParamNoHost(elem, name, value) ==
    IF name = NameFor THEN [elem EXCEPT !.For = value]
    ELSE IF name = NameBy THEN [elem EXCEPT !.By = value]
    ELSE IF name = NameProto THEN [elem EXCEPT !.Proto = ToLower(value)]
    ELSE [elem EXCEPT !.Ext = MapSet(elem.Ext, name, value)]

\* The switch on name that stores value in elem.
setParam(elem, name, value) ==
    IF name = NameFor THEN [elem EXCEPT !.For = value]
    ELSE IF name = NameBy THEN [elem EXCEPT !.By = value]
    ELSE IF name = NameHost THEN [elem EXCEPT !.Host = value]
    ELSE IF name = NameProto THEN [elem EXCEPT !.Proto = ToLower(value)]
    ELSE [elem EXCEPT !.Ext = MapSet(elem.Ext, name, value)]

\* One pass of the inner loop of Forwarded that keeps v where it is when it
\* meets a ";" without a name.
ForwardedPassNoSkip(v, elem) ==
    LET n == consumeItem(v)
        name == ToLower(n.val)
        v2 == Tail(n.v)
        q == consumeQuoted(v2)
        t == consumeItem(v2)
    IN  IF name = <<>>
        THEN IF peek(n.v) = SEMI
             THEN [again |-> TRUE, v |-> n.v, elem |-> elem]
             ELSE [again |-> FALSE, v |-> n.v, elem |-> elem]
        ELSE IF peek(n.v) /= EQUALS
        THEN [again |-> FALSE, v |-> n.v, elem |-> elem]
        ELSE IF peek(v2) = DQUOTE
        THEN IF ~q.ok
             THEN [again |-> FALSE, v |-> q.v, elem |-> elem]
             ELSE [again |-> TRUE, v |-> q.v, elem |-> setParam(elem, name, q.val)]
        ELSE [again |-> TRUE, v |-> t.v, elem |-> setParam(elem, name, t.val)]

\* One pass of the inner loop of Forwarded over the input v: again is TRUE
\* when the pass ends at continue or at the end of the body, FALSE at break.
ForwardedPass(v, elem) ==
    LET n == consumeItem(v)
        name == ToLower(n.val)
        v2 == Tail(n.v)
        q == consumeQuoted(v2)
        t == consumeItem(v2)
    IN  IF name = <<>>
        THEN IF peek(n.v) = SEMI
             THEN [again |-> TRUE, v |-> Tail(n.v), elem |-> elem]
             ELSE [again |-> FALSE, v |-> n.v, elem |-> elem]
        ELSE IF peek(n.v) /= EQUALS
        THEN [again |-> FALSE, v |-> n.v, elem |-> elem]
        ELSE IF peek(v2) = DQUOTE
        THEN IF ~q.ok
             THEN [again |-> FALSE, v |-> q.v, elem |-> elem]
             ELSE [again |-> TRUE, v |-> q.v, elem |-> setParam(elem, name, q.val)]
        ELSE [again |-> TRUE, v |-> t.v, elem |-> setParam(elem, name, t.val)]

\* The inner loop of Forwarded: the forwarded-pairs of the element at v.
RECURSIVE ForwardedPairs(_, _)
ForwardedPairs(v, elem) ==
    LET n == consumeItem(v)
        name == ToLower(n.val)
        v2 == Tail(n.v)
        q == consumeQuoted(v2)
        t == consumeItem(v2)
    IN  IF name = <<>>
        THEN IF peek(n.v) = SEMI
             THEN ForwardedPairs(Tail(n.v), elem)
             ELSE [elem |-> elem, v |-> n.v]
        ELSE IF peek(n.v) /= EQUALS
        THEN [elem |-> elem, v |-> n.v]
        ELSE IF peek(v2) = DQUOTE
        THEN IF ~q.ok
             THEN [elem |-> elem, v |-> q.v]
             ELSE ForwardedPairs(q.v, setParam(elem, name, q.val))
        ELSE ForwardedPairs(t.v, setParam(elem, name, t.val))

\* Forwarded giving up at the first element that holds no forwarded-pair.
RECURSIVE ForwardedLoopAbort(_, _)
ForwardedLoopAbort(it, elems) ==
    IF it.nil THEN elems
    ELSE LET e == ForwardedPairs(it.v, ZeroElem)
         IN  IF e.elem = ZeroElem THEN elems
             ELSE ForwardedLoopAbort(iterElems(e.v, it.vs), AppendTo(elems, e.elem))

RECURSIVE ForwardedLoop(_, _)
ForwardedLoop(it, elems) ==
    IF it.nil THEN elems
    ELSE LET e == ForwardedPairs(it.v, ZeroElem)
         IN  ForwardedLoop(iterElems(e.v, it.vs), AppendTo(elems, e.elem))

Forwarded(lines) == ForwardedLoop(iterElems(<<>>, lines), NilSlice)

isToken(s) == s /= <<>> /\ \A i \in 1..Len(s) : isTokenChar(s[i])

\* writeParam returns the builder's text; its boolean result is always true.
writeParam(b, wrote, name, value) ==
    LET b1 == (IF wrote THEN b \o <<SEMI>> ELSE b) \o name \o <<EQUALS>>
    IN  IF isToken(value) THEN b1 \o value ELSE writeDelimited(b1, value, DQUOTE, DQUOTE)

\* The range over elem.Ext, visiting the names in the order given.
RECURSIVE writeExt(_, _, _, _)
writeExt(b, wrote, ext, order) ==
    IF order = <<>> THEN b
    ELSE writeExt(writeParam(b, wrote, order[1], ext.m[order[1]]), TRUE, ext, Tail(order))

\* buildForwarded never recording that it wrote a parameter.
buildForwardedElemNoWrote(b, elem, order) ==
    LET b1 == IF elem.For /= <<>> THEN writeParam(b, FALSE, NameFor, elem.For) ELSE b
        b2 == IF elem.By /= <<>> THEN writeParam(b1, FALSE, NameBy, elem.By) ELSE b1
        b3 == IF elem.Host /= <<>> THEN writeParam(b2, FALSE, NameHost, elem.Host) ELSE b2
        b4 == IF elem.Proto /= <<>> THEN writeParam(b3, FALSE, NameProto, elem.Proto) ELSE b3
    IN  writeExt(b4, FALSE, elem.Ext, order)

\* The body of the loop of buildForwarded for one element; order is the
\* order in which the range over the map visits the names of elem.Ext.
buildForwardedElem(b, elem, order) ==
    LET w0 == FALSE
        b1 == IF elem.For /= <<>> THEN writeParam(b, w0, NameFor, elem.For) ELSE b
        w1 == w0 \/ elem.For /= <<>>
        b2 == IF elem.By /= <<>> THEN writeParam(b1, w1, NameBy, elem.By) ELSE b1
        w2 == w1 \/ elem.By /= <<>>
        b3 == IF elem.Host /= <<>> THEN writeParam(b2, w2, NameHost, elem.Host) ELSE b2
        w3 == w2 \/ elem.Host /= <<>>
        b4 == IF elem.Proto /= <<>> THEN writeParam(b3, w3, NameProto, elem.Proto) ELSE b3
        w4 == w3 \/ elem.Proto /= <<>>
    IN  writeExt(b4, w4, elem.Ext, order)

RECURSIVE buildForwardedFrom(_, _, _, _)
buildForwardedFrom(elems, orders, i, b) ==
    IF i > Len(elems) THEN b
    ELSE buildForwardedFrom(elems, orders, i + 1,
                            buildForwardedElem(IF i > 1 THEN b \o <<COMMA, SP>> ELSE b,
                                               elems[i], orders[i]))

buildForwarded(elems, orders) == buildForwardedFrom(elems, orders, 1, <<>>)

(***************************************************************************)
(* The header map (http.Header): one sequence of physical lines per name;  *)
(* a name that is absent has no lines.                                     *)
(***************************************************************************)
Names == {"Allow", "Via", "Warning", "Forwarded"}

EmptyHeader == [n \in Names |-> <<>>]

\* http.Header.Set
HeaderSet(hh, name, value) == [hh EXCEPT ![name] = <<value>>]

\* http.Header.Add
HeaderAdd(hh, name, value) == [hh EXCEPT ![name] = Append(@, value)]

SetVia(hh, entries) == HeaderSet(hh, "Via", buildVia(entries))

\* AddVia replacing the Via lines instead of appending to them.
AddViaBySet(hh, entry) == HeaderSet(hh, "Via", buildVia(<<entry>>))

AddVia(hh, entry) == HeaderAdd(hh, "Via", buildVia(<<entry>>))

SetWarning(hh, entries) == HeaderSet(hh, "Warning", buildWarning(entries))

AddWarning(hh, entry) == HeaderAdd(hh, "Warning", buildWarning(<<entry>>))

SetForwarded(hh, elems, orders) == HeaderSet(hh, "Forwarded", buildForwarded(elems, orders))

AddForwarded(hh, elems, orders) == HeaderAdd(hh, "Forwarded", buildForwarded(elems, orders))

(***************************************************************************)
(* Bounds and input sets.                                                  *)
(***************************************************************************)
\* The most physical lines one header name holds.
MaxLines == 2

\* The most entries one builder call is given.
MaxEntries == 2

\* The most elements of one comma-separated list that is split in two.
MaxElems == 3

SeqsUpTo(S, n) == UNION {[1..k -> S] : k \in 0..n}

\* Every text of at most two bytes of S.
ShortTexts(S) == {<<>>} \cup {<<a>> : a \in S} \cup {<<a, b>> : a \in S, b \in S}

(***************************************************************************)
(* Operations: one action per exported function.  op names the last call, *)
(* arg is the argument of the last builder call, ret is the result of the  *)
(* last parser call since.                                                 *)
(***************************************************************************)
\* A Set call is a function of its arguments alone, so a behaviour applies it
\* to the header map it starts from and to no other.
Fresh == op = "init"

CallAllow ==
    /\ op' = "Allow"
    /\ ret' = Allow(h["Allow"])
    /\ UNCHANGED <<h, arg>>

CallVia ==
    /\ op' = "Via"
    /\ ret' = Via(h["Via"])
    /\ UNCHANGED <<h, arg>>

CallWarning ==
    /\ op' = "Warning"
    /\ ret' = Warning(h["Warning"])
    /\ UNCHANGED <<h, arg>>

CallForwarded ==
    /\ op' = "Forwarded"
    /\ ret' = Forwarded(h["Forwarded"])
    /\ UNCHANGED <<h, arg>>

CallSetVia(entries) ==
    /\ h' = SetVia(h, entries)
    /\ op' = "SetVia"
    /\ arg' = entries
    /\ ret' = NilSlice

CallAddVia(entry) ==
    /\ Len(h["Via"]) < MaxLines
    /\ h' = AddVia(h, entry)
    /\ op' = "AddVia"
    /\ arg' = entry
    /\ ret' = NilSlice

CallAddWarning(entry) ==
    /\ Len(h["Warning"]) < MaxLines
    /\ h' = AddWarning(h, entry)
    /\ op' = "AddWarning"
    /\ arg' = entry
    /\ ret' = NilSlice

CallSetForwarded(elems, orders) ==
    /\ h' = SetForwarded(h, elems, orders)
    /\ op' = "SetForwarded"
    /\ arg' = elems
    /\ ret' = NilSlice

CallAddForwarded(elems, orders) ==
    /\ Len(h["Forwarded"]) < MaxLines
    /\ h' = AddForwarded(h, elems, orders)
    /\ op' = "AddForwarded"
    /\ arg' = elems
    /\ ret' = NilSlice

CallSetWarning(entries) ==
    /\ h' = SetWarning(h, entries)
    /\ op' = "SetWarning"
    /\ arg' = entries
    /\ ret' = NilSlice

(***************************************************************************)
(* Via: round trip through SetVia and Via.                                 *)
(***************************************************************************)
L1a == <<"1", SP, "a">>

CommentBytes == {COMMA, LPAREN, RPAREN, BSLASH}

ViaProtos == {<<"H", "T", "T", "P", SLASH, "1">>, <<"F", SLASH, "1">>}

ViaBys == {<<"a">>, <<LPAREN, "b">>}

ViaEntries ==
    {ViaEntry(p, b, c) : p \in ViaProtos, b \in ViaBys, c \in ShortTexts(CommentBytes)}

InitViaBuild ==
    /\ h \in {EmptyHeader, [EmptyHeader EXCEPT !["Via"] = <<L1a>>]}
    /\ op = "init"
    /\ arg = <<>>
    /\ ret = NilSlice

NextViaBuild ==
    \/ Fresh /\ \E entries \in SeqsUpTo(ViaEntries, MaxEntries) : CallSetVia(entries)
    \/ CallVia

SpecViaBuild == InitViaBuild /\ [][NextViaBuild]_vars

\* C4: after SetVia(h, E), for entries E with ReceivedProto NAME/VERSION, a
\* ReceivedBy without whitespace or comma and any Comment, Via(h) returns E;
\* an entry with ReceivedProto HTTP/x is written in the shorthand form x.
C4_ViaRoundTrip ==
    /\ (op = "Via" /\ arg /= <<>>) => ret.val = arg
    /\ (op = "SetVia" /\ arg = <<>>) => Via(h["Via"]).val = <<>>
    /\ (op = "SetVia" /\ Len(arg) = 1 /\ HasPrefix(arg[1].ReceivedProto, HTTPPrefix))
           => /\ Len(h["Via"]) = 1
              /\ HasPrefix(h["Via"][1], Drop(arg[1].ReceivedProto, Len(HTTPPrefix)) \o <<SP>>)

C4_Witness ==
    /\ op = "Via"
    /\ Len(arg) = 2
    /\ arg[1].Comment = <<RPAREN, BSLASH>>
    /\ arg[1].ReceivedProto = <<"H", "T", "T", "P", SLASH, "1">>
    /\ ret.val = arg

(***************************************************************************)
(* Warning: round trip through SetWarning and Warning.                     *)
(***************************************************************************)
TextBytes == {COMMA, DQUOTE, BSLASH}

WarningCodes == {100, 999}

WarningDates == {ZeroTime, 3}

WarningEntries ==
    {WarningEntry(c, <<"-">>, t, d) :
        c \in WarningCodes, t \in ShortTexts(TextBytes), d \in WarningDates}

L299 == <<"2", "9", "9">>

InitWarningBuild ==
    /\ h \in {EmptyHeader, [EmptyHeader EXCEPT !["Warning"] = <<L299>>]}
    /\ op = "init"
    /\ arg = <<>>
    /\ ret = NilSlice

NextWarningBuild ==
    \/ Fresh /\ \E entries \in SeqsUpTo(WarningEntries, MaxEntries) : CallSetWarning(entries)
    \/ CallWarning

SpecWarningBuild == InitWarningBuild /\ [][NextWarningBuild]_vars

\* C3: after SetWarning(h, E), for entries E with Code in 100..999, a token
\* Agent, any Text and a Date that is zero or a whole-second UTC time,
\* Warning(h) returns E.
C3_WarningRoundTrip ==
    /\ (op = "Warning" /\ arg /= <<>>) => ret.val = arg
    /\ (op = "SetWarning" /\ arg = <<>>) => Warning(h["Warning"]).val = <<>>

C3_Witness ==
    /\ op = "Warning"
    /\ Len(arg) = 2
    /\ arg[1].Text = <<DQUOTE, COMMA>>
    /\ arg[1].Date /= ZeroTime
    /\ arg[2].Text = <<BSLASH>>
    /\ ret.val = arg

(***************************************************************************)
(* Presence: a header map that holds one name, with lines as received.     *)
(***************************************************************************)
LG == <<"G">>

BlankLines == {<<>>, <<SP>>, <<COMMA>>, <<COMMA, HT, COMMA>>}

PresenceLines == BlankLines \cup {<<SEMI>>, LG}

isBlank(line) == runLen("wscomma", line, 0) = Len(line)

AllBlank(lines) == \A i \in 1..Len(lines) : isBlank(lines[i])

InitPresence ==
    /\ \E n \in Names : \E lines \in SeqsUpTo(PresenceLines, MaxLines) :
           h = [EmptyHeader EXCEPT ![n] = lines]
    /\ op = "init"
    /\ arg = <<>>
    /\ ret = NilSlice

NextPresence == CallAllow \/ CallVia \/ CallWarning \/ CallForwarded

SpecPresence == InitPresence /\ [][NextPresence]_vars

\* C5: Allow returns nil exactly when the map holds no Allow line; with at
\* least one Allow line, all of them empty or whitespace and commas only, it
\* returns a slice that is not nil and has length 0.
C5_AllowNil ==
    op = "Allow" =>
        /\ ret.nil <=> h["Allow"] = <<>>
        /\ (h["Allow"] /= <<>> /\ AllBlank(h["Allow"])) => (~ret.nil /\ Len(ret.val) = 0)

C5_Witness ==
    /\ op = "Allow"
    /\ h["Allow"] = <<<<COMMA, HT, COMMA>>, <<>>>>
    /\ ~ret.nil
    /\ ret.val = <<>>

Structured == {"Via", "Warning", "Forwarded"}

L1 == <<"1">>
L1c2b == <<"1", COMMA, SP, "2", SP, "b">>
L1aUnterminated == <<"1", SP, "a", SP, LPAREN, "u">>
LF1bComment == <<"F", SLASH, "1", SP, "b", HT, LPAREN, "c", COMMA, "d", RPAREN>>
LCommas == <<COMMA, COMMA, SP>>

ViaLines == {L1a, L1, L1c2b, L1aUnterminated, LF1bComment, LCommas}

ViaAddEntries ==
    {ViaEntry(<<"H", "T", "T", "P", SLASH, "1">>, <<"a">>, <<>>),
     ViaEntry(<<"F", SLASH, "2">>, <<"b">>, <<LPAREN, COMMA>>),
     ViaEntry(<<"H", "T", "T", "P", SLASH, "2">>, <<>>, <<>>)}

InitVia ==
    /\ \E lines \in SeqsUpTo(ViaLines, MaxLines) : \E al \in {<<>>, <<LG>>} :
           h = [EmptyHeader EXCEPT !["Via"] = lines, !["Allow"] = al]
    /\ op = "init"
    /\ arg = <<>>
    /\ ret = NilSlice

NextVia ==
    \/ CallVia
    \/ \E entry \in ViaAddEntries : CallAddVia(entry)

SpecVia == InitVia /\ [][NextVia]_vars

\* The entries of a Via header when every element that has a protocol gives
\* an entry, an element without received-by included.
RECURSIVE ViaOfEveryProto(_, _)
ViaOfEveryProto(it, entries) ==
    IF it.nil THEN entries
    ELSE LET p == chomp(it.v)
             proto == IF Contains(p.val, SLASH) THEN p.val ELSE HTTPPrefix \o p.val
             b == chomp(p.v)
             c == IF peek(b.v) = LPAREN THEN comment(b.v) ELSE [val |-> <<>>, v |-> b.v]
         IN  ViaOfEveryProto(toNextElem(c.v, it.vs),
                             IF p.val = <<>> THEN entries
                             ELSE Append(entries, ViaEntry(proto, b.val, c.val)))

\* C7: an element with a protocol and no received-by is emitted with the
\* inferred ReceivedProto and an empty ReceivedBy, in its place among the
\* entries of the elements around it.
C7_NoReceivedByEmitted ==
    op = "Via" => ret.val = ViaOfEveryProto(toNextElem(<<>>, h["Via"]), <<>>)

wellFormedVia(entry) ==
    /\ Contains(entry.ReceivedProto, SLASH)
    /\ entry.ReceivedBy /= <<>>

\* C9: AddVia(h, e) appends one physical Via line, keeps the Via lines that
\* were there and the lines of every other name, and for a well-formed e the
\* entries of Via(h) after the call are those before it followed by e.
C9_AddViaAppends ==
    [][op' = "AddVia" =>
          /\ Len(h'["Via"]) = Len(h["Via"]) + 1
          /\ Take(h'["Via"], Len(h["Via"])) = h["Via"]
          /\ \A n \in Names \ {"Via"} : h'[n] = h[n]
          /\ wellFormedVia(arg') => Via(h'["Via"]).val = Append(Via(h["Via"]).val, arg')
      ]_vars

C9_Witness ==
    /\ op = "AddVia"
    /\ Len(h["Via"]) = 2
    /\ h["Via"][1] = L1aUnterminated
    /\ h["Allow"] /= <<>>
    /\ wellFormedVia(arg)
    /\ Via(h["Via"]).val[2] = arg

(***************************************************************************)
(* Warning: lines as received.                                             *)
(***************************************************************************)
LJunk299 == <<"?", "?", COMMA, "2", "9", "9", SP, "-", SP, DQUOTE, "g", DQUOTE>>
L299Dash == <<"2", "9", "9", SP, "-">>
L299Good == <<"2", "9", "9", SP, "-", SP, DQUOTE, "g", DQUOTE>>
L299BadGood == <<"2", "9", "9", SP, SP, COMMA, SP, "1", "9", "9", SP, "a", SP, DQUOTE, "g">>

L299Dated ==
    <<"2", "9", "9", SP, "-", SP, DQUOTE, "g", DQUOTE, SP, DQUOTE>> \o FormatTime(3)
    \o <<DQUOTE, HT, COMMA, "1", "9", "9", SP, "-", SP, DQUOTE, "b", DQUOTE>>

WarningLines == {L299, L299Dash, L299Good, LJunk299, L299BadGood, LCommas, L299Dated}

WarningAddEntries == {WarningEntry(299, <<"-">>, <<"g">>, ZeroTime)}

InitWarning ==
    /\ \E lines \in SeqsUpTo(WarningLines, MaxLines) :
           h = [EmptyHeader EXCEPT !["Warning"] = lines]
    /\ op = "init"
    /\ arg = <<>>
    /\ ret = NilSlice

NextWarning ==
    \/ CallWarning
    \/ \E entry \in WarningAddEntries : CallAddWarning(entry)

SpecWarning == InitWarning /\ [][NextWarning]_vars

\* The number of non-empty elements of a comma-separated list.
RECURSIVE elemCount(_, _)
elemCount(it, n) == IF it.nil THEN n ELSE elemCount(toNextElem(it.v, it.vs), n + 1)

\* C8: Warning returns one entry per non-empty element; "299" alone gives
\* Code 299 with an empty Agent and Text.
C8_OneEntryPerElement ==
    op = "Warning" =>
        /\ Len(ret.val) = elemCount(toNextElem(<<>>, h["Warning"]), 0)
        /\ h["Warning"] = <<L299>> => ret.val = <<WarningEntry(299, <<>>, <<>>, ZeroTime)>>

(***************************************************************************)
(* One list on one line or on two: the sender, or an intermediary, breaks  *)
(* a line of a list header at a comma that separates two elements.         *)
(***************************************************************************)
\* The comment nesting depth of line after its first n bytes, for a line
\* whose parentheses all belong to comments.
RECURSIVE commentDepth(_, _, _, _)
commentDepth(line, n, i, depth) ==
    IF i >= n THEN depth
    ELSE LET c == line[i + 1]
         IN  IF depth > 0 /\ c = BSLASH THEN commentDepth(line, n, i + 2, depth)
             ELSE IF c = LPAREN THEN commentDepth(line, n, i + 1, depth + 1)
             ELSE IF c = RPAREN /\ depth > 0 THEN commentDepth(line, n, i + 1, depth - 1)
             ELSE commentDepth(line, n, i + 1, depth)

\* Byte i of line is a comma outside every comment.
topLevelComma(line, i) ==
    /\ line[i] = COMMA
    /\ commentDepth(line, i - 1, 0, 0) = 0
    /\ commentDepth(line, i, 0, 0) = 0

SplitLine(name, i) ==
    /\ Len(h[name]) = 1
    /\ i \in 1..Len(h[name][1])
    /\ topLevelComma(h[name][1], i)
    /\ h' = [h EXCEPT ![name] = <<Take(h[name][1], i - 1), Drop(h[name][1], i)>>]
    /\ op' = "Split"
    /\ arg' = <<>>
    /\ ret' = NilSlice

L2cEscaped == <<"2", SP, "c", SP, LPAREN, BSLASH, LPAREN, COMMA, RPAREN>>
LPUT == <<"P", "U", "T">>

ViaElemTexts == {L1a, LF1bComment, L2cEscaped}

AllowElemTexts == {LG, LPUT}

Separators == {<<COMMA>>, <<COMMA, SP>>, <<HT, COMMA, SP>>}

\* The lists of at most n elements of S, each two joined by a separator.
RECURSIVE ListTexts(_, _)
ListTexts(S, n) ==
    IF n = 1 THEN S
    ELSE ListTexts(S, n - 1)
         \cup {l \o sep \o e : l \in ListTexts(S, n - 1), sep \in Separators, e \in S}

\* The length of the first line of a name, 0 without one.
firstLineLen(name) == IF h[name] = <<>> THEN 0 ELSE Len(h[name][1])

InitSplit ==
    /\ \/ \E line \in ListTexts(ViaElemTexts, MaxElems) :
              h = [EmptyHeader EXCEPT !["Via"] = <<line>>]
       \/ \E line \in ListTexts(AllowElemTexts, MaxElems) :
              h = [EmptyHeader EXCEPT !["Allow"] = <<line>>]
    /\ op = "init"
    /\ arg = <<>>
    /\ ret = NilSlice

NextSplit ==
    \/ \E name \in {"Via", "Allow"} : \E i \in 1..firstLineLen(name) : SplitLine(name, i)
    \/ CallVia
    \/ CallAllow

SpecSplit == InitSplit /\ [][NextSplit]_vars

\* C2: a valid comma-separated list split into two physical lines at a comma
\* between two elements parses to the entries, in the order, of the list on
\* one line, for Via and for Allow.
C2_SplitSameEntries ==
    [][op' = "Split" =>
          /\ Via(h'["Via"]) = Via(h["Via"])
          /\ Allow(h'["Allow"]) = Allow(h["Allow"])
      ]_vars

C2_Witness ==
    /\ op = "Via"
    /\ Len(h["Via"]) = 2
    /\ h["Via"][1] = LF1bComment \o <<HT>>
    /\ Len(ret.val) = 3
    /\ ret.val[1].Comment = <<"c", COMMA, "d">>

(***************************************************************************)
(* Forwarded: lines as received from a client, to which a gateway appends  *)
(* its own element, as a line of its own (AddForwarded) or after a comma   *)
(* on the last line received.                                              *)
(***************************************************************************)
\* The one order in which a map of at most one name is visited.
orderOf(ext) == IF DOMAIN ext.m = {} THEN <<>> ELSE <<CHOOSE k \in DOMAIN ext.m : TRUE>>

\* Every order in which the range over ext can visit its names.
Orders(ext) ==
    {o \in SeqsUpTo(DOMAIN ext.m, Cardinality(DOMAIN ext.m)) :
        /\ Len(o) = Cardinality(DOMAIN ext.m)
        /\ \A k \in DOMAIN ext.m : \E i \in 1..Len(o) : o[i] = k}

\* One order for each element of elems.
AllOrders(elems) ==
    {os \in [1..Len(elems) -> UNION {Orders(elems[i].Ext) : i \in 1..Len(elems)}] :
        \A i \in 1..Len(elems) : os[i] \in Orders(elems[i].Ext)}

JoinForwarded(elems, sep) ==
    /\ h["Forwarded"] /= <<>>
    /\ Len(elems) = 1
    /\ h' = [h EXCEPT !["Forwarded"][Len(h["Forwarded"])] =
                 @ \o sep \o buildForwarded(elems, <<orderOf(elems[1].Ext)>>)]
    /\ op' = "JoinForwarded"
    /\ arg' = elems
    /\ ret' = NilSlice

LQuestion == <<"?">>
LForUnterminated == <<"f", "o", "r", EQUALS, DQUOTE, "u">>
LStray == <<SEMI, SEMI, EQUALS>>
LNoEquals == <<"f", "o", "r", EQUALS, "a", SEMI, "b", "y">>
LQuotedComma == <<"x", EQUALS, DQUOTE, "a", COMMA, "b", DQUOTE>>
LBareQuote == <<"y", SP, DQUOTE, "a">>
LForA == <<"F", "o", "r", EQUALS, "a", SEMI, "X", EQUALS, "1">>

ForwardedLines ==
    {<<>>, LQuestion, LForUnterminated, LStray, LNoEquals, LQuotedComma, LBareQuote, LForA}

ExtX == [nil |-> FALSE, m |-> [k \in {<<"x">>} |-> <<"1">>]]

GatewayElems ==
    {ForwardedElem(<<>>, <<"1">>, <<>>, <<>>, NilMap),
     ForwardedElem(<<"[", ":", "]">>, <<COMMA, DQUOTE>>, <<>>, <<"p">>, NilMap),
     ForwardedElem(<<>>, <<>>, <<"h">>, <<>>, ExtX)}

InitForwarded ==
    /\ \E lines \in SeqsUpTo(ForwardedLines, MaxLines) :
           h = [EmptyHeader EXCEPT !["Forwarded"] = lines]
    /\ op = "init"
    /\ arg = <<>>
    /\ ret = NilSlice

NextForwarded ==
    \/ CallForwarded
    \/ Fresh /\ \E e \in GatewayElems : CallAddForwarded(<<e>>, <<orderOf(e.Ext)>>)
    \/ Fresh /\ \E e \in GatewayElems : \E sep \in {<<COMMA>>, <<COMMA, SP>>} :
           JoinForwarded(<<e>>, sep)

SpecForwarded == InitForwarded /\ [][NextForwarded]_vars

Last(s) == s[Len(s)]

\* The text of the last line that precedes the element the gateway wrote.
sharedPrefix ==
    LET line == Last(h["Forwarded"])
    IN  Take(line, Len(line) - Len(buildForwarded(arg, <<orderOf(arg[1].Ext)>>)))

appended == op \in {"AddForwarded", "JoinForwarded"}

lastIsGateway ==
    LET r == Forwarded(h["Forwarded"]).val
    IN  r /= <<>> /\ Last(r) = arg[1]

ExtXY ==
    [nil |-> FALSE,
     m |-> [k \in {<<"x">>, <<"y">>} |-> IF k = <<"x">> THEN <<"1">> ELSE <<"q", SP>>]]

ForwardedElems ==
    {ForwardedElem(by, for, host, proto, ext) :
        by \in {<<>>, <<"b">>}, for \in {<<>>, <<"1">>}, host \in {<<>>, <<"h", ":">>},
        proto \in {<<>>, <<"p">>}, ext \in {NilMap, ExtXY}}

InitForwardedBuild ==
    /\ h \in {EmptyHeader, [EmptyHeader EXCEPT !["Forwarded"] = <<LForA>>]}
    /\ op = "init"
    /\ arg = <<>>
    /\ ret = NilSlice

NextForwardedBuild ==
    \/ Fresh /\ \E elems \in SeqsUpTo(ForwardedElems, MaxEntries) :
           \E orders \in AllOrders(elems) : CallSetForwarded(elems, orders)
    \/ Fresh /\ \E elems \in SeqsUpTo(GatewayElems, MaxEntries) :
           \E orders \in AllOrders(elems) : CallAddForwarded(elems, orders)
    \/ CallForwarded

SpecForwardedBuild == InitForwardedBuild /\ [][NextForwardedBuild]_vars

RECURSIVE joinTexts(_, _)
joinTexts(texts, sep) ==
    IF texts = <<>> THEN <<>>
    ELSE IF Len(texts) = 1 THEN texts[1]
    ELSE texts[1] \o sep \o joinTexts(Tail(texts), sep)

pairText(name, value) ==
    name \o <<EQUALS>>
    \o (IF isToken(value) THEN value
        ELSE <<DQUOTE>> \o escapeDelimited(value, DQUOTE, DQUOTE) \o <<DQUOTE>>)

nonEmptyValue(pair) == pair[2] /= <<>>

\* The name=value pairs of elem: the standard fields that are not empty, in
\* the order for, by, host, proto, then the extensions in the order given.
pairTexts(elem, order) ==
    LET std == SelectSeq(<<<<NameFor, elem.For>>, <<NameBy, elem.By>>,
                           <<NameHost, elem.Host>>, <<NameProto, elem.Proto>>>>,
                         nonEmptyValue)
    IN  [i \in 1..Len(std) |-> pairText(std[i][1], std[i][2])]
        \o [i \in 1..Len(order) |-> pairText(order[i], elem.Ext.m[order[i]])]

elemTexts(elems, orders) ==
    [i \in 1..Len(elems) |-> joinTexts(pairTexts(elems[i], orders[i]), <<SEMI>>)]

\* C10: the value written joins the elements with ", "; each element is its
\* non-empty standard fields as name=value in the order for, by, host, proto,
\* then its extension pairs, joined with ";".
C10_ForwardedText ==
    /\ op = "SetForwarded" =>
           \E orders \in AllOrders(arg) :
               h["Forwarded"] = <<joinTexts(elemTexts(arg, orders), <<COMMA, SP>>)>>
    /\ op = "AddForwarded" =>
           \E orders \in AllOrders(arg) :
               Last(h["Forwarded"]) = joinTexts(elemTexts(arg, orders), <<COMMA, SP>>)

C10_Witness ==
    /\ op = "SetForwarded"
    /\ Len(arg) = 2
    /\ arg[1] = ForwardedElem(<<>>, <<"1">>, <<>>, <<"p">>, NilMap)
    /\ arg[2].Ext = ExtXY
    /\ Take(h["Forwarded"][1], 13) =
           <<"f", "o", "r", EQUALS, "1", SEMI, "p", "r", "o", "t", "o", EQUALS, "p">>

(***************************************************************************)
(* Forwarded: one element written by a client as name=value pairs joined   *)
(* by ";", the names in any letter case.  The value of a pair is written   *)
(* as a token or as a quoted string; the last pair may be open: its quoted *)
(* string is not terminated.                                               *)
(***************************************************************************)
\* The most pairs of one element.
MaxPairs == 2

Pair(name, value, open) == [name |-> name, value |-> value, open |-> open]

PairNames ==
    {NameFor, <<"F", "o", "R">>, <<"P", "R", "O", "T", "O">>, <<"H", "o", "s", "t">>,
     <<"x">>, <<"X">>}

PairValues == {<<"a">>, <<"B", SEMI>>}

ClosedPairs == {Pair(n, v, FALSE) : n \in PairNames, v \in PairValues}

OpenPairs == {Pair(n, v, TRUE) : n \in PairNames, v \in PairValues}

\* The lists of at most MaxPairs pairs, followed by at most one open pair.
PairLists ==
    {l \o t : l \in SeqsUpTo(ClosedPairs, MaxPairs), t \in {<<>>} \cup {<<q>> : q \in OpenPairs}}
    \ {<<>>}

wirePair(pair) ==
    pair.name \o <<EQUALS>>
    \o (IF pair.open THEN <<DQUOTE>> \o escapeDelimited(pair.value, DQUOTE, DQUOTE)
        ELSE IF isToken(pair.value) THEN pair.value
        ELSE <<DQUOTE>> \o escapeDelimited(pair.value, DQUOTE, DQUOTE) \o <<DQUOTE>>)

RECURSIVE wirePairs(_)
wirePairs(pairs) ==
    IF Len(pairs) = 1 THEN wirePair(pairs[1])
    ELSE wirePair(pairs[1]) \o <<SEMI>> \o wirePairs(Tail(pairs))

WritePairs(pairs) ==
    /\ h' = HeaderAdd(h, "Forwarded", wirePairs(pairs))
    /\ op' = "WritePairs"
    /\ arg' = pairs
    /\ ret' = NilSlice

InitForwardedPairs ==
    /\ \E lines \in SeqsUpTo(ForwardedLines, 1) :
           h = [EmptyHeader EXCEPT !["Forwarded"] = lines]
    /\ op = "init"
    /\ arg = <<>>
    /\ ret = NilSlice

NextForwardedPairs ==
    \/ Fresh /\ \E pairs \in PairLists : WritePairs(pairs)
    \/ CallForwarded

SpecForwardedPairs == InitForwardedPairs /\ [][NextForwardedPairs]_vars

StandardNames == {NameFor, NameBy, NameHost, NameProto}

isLower(s) == ToLower(s) = s

\* What holds of the Ext of every element returned.
extKept(elem) ==
    /\ \A k \in DOMAIN elem.Ext.m : k \notin StandardNames /\ isLower(k)
    /\ elem.Ext.nil <=> DOMAIN elem.Ext.m = {}

\* The pairs of the list whose name is name in some letter case.
occurrences(pairs, name) ==
    {i \in 1..Len(pairs) : ToLower(pairs[i].name) = name}

\* The value of the last pair among those at the positions in occ, empty
\* when there is none.
lastValue(pairs, occ) ==
    IF occ = {} THEN <<>>
    ELSE pairs[CHOOSE i \in occ : \A j \in occ : j <= i].value

closedOnly(pairs, occ) == {i \in occ : ~pairs[i].open}

\* The field of elem that holds the standard parameter name.
fieldOf(elem, name) ==
    IF name = NameFor THEN elem.For
    ELSE IF name = NameBy THEN elem.By
    ELSE IF name = NameHost THEN elem.Host
    ELSE elem.Proto

\* The value a field holds for the value of its parameter: Proto is lowercased.
fieldValue(name, value) == IF name = NameProto THEN ToLower(value) ELSE value

\* The element Forwarded returns for the pairs the client wrote.
written == Last(ret.val)

parsedWritten == op = "Forwarded" /\ arg /= <<>>

MaxBody == 5

BodyBytes == {LPAREN, RPAREN, BSLASH, COMMA, "c"}

Bodies == SeqsUpTo(BodyBytes, MaxBody)

LCommentOpen == <<"1", SP, "a", SP, LPAREN>>
L2b == <<"2", SP, "b">>

WriteComment(body, more) ==
    /\ h' = [h EXCEPT !["Via"] =
                 <<LCommentOpen \o body>> \o (IF more THEN <<L2b>> ELSE <<>>)]
    /\ op' = "WriteComment"
    /\ arg' = [body |-> body, more |-> more]
    /\ ret' = NilSlice

InitViaComment ==
    /\ h = EmptyHeader
    /\ op = "init"
    /\ arg = <<>>
    /\ ret = NilSlice

NextViaComment ==
    \/ Fresh /\ \E body \in Bodies, more \in BOOLEAN : WriteComment(body, more)
    \/ CallVia

SpecViaComment == InitViaComment /\ [][NextViaComment]_vars

\* The byte at i follows a backslash that is not itself escaped.
RECURSIVE escaped(_, _)
escaped(s, i) == i > 1 /\ s[i - 1] = BSLASH /\ ~escaped(s, i - 1)

\* The unescaped bytes c among the first i of s.
unescapedCount(s, c, i) ==
    Cardinality({j \in 1..i : s[j] = c /\ ~escaped(s, j)})

\* The unescaped ")" at i closes the comment that s is the body of.
closesAt(s, i) ==
    /\ s[i] = RPAREN
    /\ ~escaped(s, i)
    /\ unescapedCount(s, RPAREN, i) = unescapedCount(s, LPAREN, i) + 1

\* The position of the matching ")", 0 when there is none.
matchPos(s) ==
    IF \E i \in 1..Len(s) : closesAt(s, i)
    THEN CHOOSE i \in 1..Len(s) : closesAt(s, i) /\ \A j \in 1..(i - 1) : ~closesAt(s, j)
    ELSE 0

\* s with every backslash pair \X replaced by X.
RECURSIVE unescapeFrom(_, _)
unescapeFrom(s, i) ==
    IF i > Len(s) THEN <<>>
    ELSE IF s[i] = BSLASH /\ ~escaped(s, i) THEN unescapeFrom(s, i + 1)
    ELSE <<s[i]>> \o unescapeFrom(s, i + 1)

\* The text strictly between the opening "(" and its matching ")",
\* unescaped; all of the body, unescaped, without a matching ")".
commentText(body) ==
    unescapeFrom(IF matchPos(body) = 0 THEN body ELSE Take(body, matchPos(body) - 1), 1)

commentRead == op = "Via" /\ arg /= <<>>

nextLineEntry == ViaEntry(HTTPPrefix \o <<"2">>, <<"b">>, <<>>)

\* C12: the Comment of the entry is the text between the opening "(" and
\* its matching unescaped ")", nested parentheses kept and every backslash
\* pair \X replaced by X; without a matching ")" it is the rest of the line,
\* unescaped, and the element of the following line is still returned.
C12_CommentText ==
    commentRead =>
        /\ ret.val /= <<>>
        /\ ret.val[1] = ViaEntry(HTTPPrefix \o <<"1">>, <<"a">>, commentText(arg.body))
        /\ arg.more => Last(ret.val) = nextLineEntry
        /\ matchPos(arg.body) = 0
               => Len(ret.val) = (IF arg.more THEN 2 ELSE 1)

C12_Witness ==
    /\ commentRead
    /\ arg.body = <<LPAREN, BSLASH, RPAREN, "c", COMMA>>
    /\ arg.more
    /\ matchPos(arg.body) = 0
    /\ ret.val = <<ViaEntry(HTTPPrefix \o <<"1">>, <<"a">>, <<LPAREN, RPAREN, "c", COMMA>>),
                   nextLineEntry>>

(***************************************************************************)
(* Forwarded, one loop pass at a time.  op is the position in Forwarded:   *)
(* "cond" at the condition of the outer loop, "inner" at the head of the   *)
(* inner loop, "append" after it, "return" once Forwarded has returned.    *)
(* arg holds the locals v, vs (nil for vs == nil) and elem, together with  *)
(* mark, the position at which the current pass of the outer loop began;   *)
(* ret holds elems.                                                        *)
(***************************************************************************)
\* The longest first line.
MaxBytes == 4

RunBytes == {"a", SEMI, EQUALS, DQUOTE, COMMA, BSLASH}

RunNextLines == {<<"a", EQUALS, DQUOTE>>, <<SP, COMMA, SEMI, "a", EQUALS, "a">>}

RunHeaders ==
    {<<>>}
    \cup {<<l>> : l \in SeqsUpTo(RunBytes, MaxBytes)}
    \cup {<<l, n>> : l \in SeqsUpTo(RunBytes, MaxBytes), n \in RunNextLines}

\* The position of the iterator: the lines and the bytes still to read.
Position(it) == [lines |-> Len(it.vs), bytes |-> Len(it.v)]

Frame(it, elem, mark) ==
    [v |-> it.v, vs |-> it.vs, nil |-> it.nil, elem |-> elem, mark |-> mark]

StartForwarded ==
    /\ op = "init"
    /\ LET it == iterElems(<<>>, h["Forwarded"])
       IN  arg' = Frame(it, ZeroElem, Position(it))
    /\ op' = "cond"
    /\ ret' = NilSlice
    /\ UNCHANGED h

EnterElem ==
    /\ op = "cond"
    /\ ~arg.nil
    /\ arg' = [arg EXCEPT !.elem = ZeroElem, !.mark = Position(arg)]
    /\ op' = "inner"
    /\ UNCHANGED <<h, ret>>

InnerPass ==
    /\ op = "inner"
    /\ LET p == ForwardedPass(arg.v, arg.elem)
       IN  /\ arg' = [arg EXCEPT !.v = p.v, !.elem = p.elem]
           /\ op' = IF p.again THEN "inner" ELSE "append"
    /\ UNCHANGED <<h, ret>>

NextElem ==
    /\ op = "append"
    /\ ret' = AppendTo(ret, arg.elem)
    /\ arg' = Frame(iterElems(arg.v, arg.vs), arg.elem, arg.mark)
    /\ op' = "cond"
    /\ UNCHANGED h

ReturnForwarded ==
    /\ op = "cond"
    /\ arg.nil
    /\ op' = "return"
    /\ UNCHANGED <<h, arg, ret>>

InitForwardedRun ==
    /\ \E lines \in RunHeaders : h = [EmptyHeader EXCEPT !["Forwarded"] = lines]
    /\ op = "init"
    /\ arg = <<>>
    /\ ret = NilSlice

NextForwardedRun ==
    \/ StartForwarded
    \/ EnterElem
    \/ InnerPass
    \/ NextElem
    \/ ReturnForwarded

\* Forwarded runs on its goroutine until it returns: no pass waits.
SpecForwardedRun ==
    InitForwardedRun /\ [][NextForwardedRun]_vars /\ WF_vars(NextForwardedRun)

\* Position p is strictly later than position q.
Later(p, q) ==
    \/ p.lines < q.lines
    \/ p.lines = q.lines /\ p.bytes < q.bytes

\* A pass of the inner loop consumes a byte or leaves the loop.
innerProgress ==
    op = "inner" => \/ op' = "append"
                    \/ op' = "inner" /\ Len(arg'.v) < Len(arg.v) /\ arg'.vs = arg.vs

\* A pass of the outer loop ends the iteration or is at a later position
\* than the one it began at.
outerProgress ==
    op = "append" => op' = "cond" /\ (arg'.nil \/ Later(Position(arg'), arg.mark))

returned == op = "return"

\* C13: Forwarded returns for every header; every pass of the inner loop
\* consumes at least one byte or leaves the loop, every pass of the outer
\* loop advances to a strictly later position or ends, and what is returned
\* is the result of Forwarded.
C13_ForwardedReturns ==
    /\ <>returned
    /\ [][innerProgress /\ outerProgress]_vars
    /\ [](returned => ret = Forwarded(h["Forwarded"]))

C13_Witness ==
    /\ returned
    /\ h["Forwarded"] = <<<<SEMI, EQUALS, "a", SEMI>>, <<"a", EQUALS, DQUOTE>>>>
    /\ ret = Slice(FALSE, <<ZeroElem, ZeroElem>>)

====
